---- MODULE Spec2Model ----
(***************************************************************************)
(* Blue Iris export pipeline (src/src/bi_exporter/bi_exporter.py):          *)
(* the JSON file tracker (ExportTracker), the per-clip export worker        *)
(* (export_single_clip) and the per-job thread pool (export_clips_for_job,  *)
(* export_jobs).                                                            *)
(*                                                                         *)
(* Threads are the pool's tasks (one per listed clip) or, in the tracker    *)
(* specifications, plain callers of ExportTracker.record.  A record() call  *)
(* is split at the points where another thread or a process kill can        *)
(* interleave: lock acquisition, the in-memory mutation, the open and the   *)
(* write of the temporary file, and the replace.                            *)
(***************************************************************************)
EXTENDS Integers, Sequences, FiniteSets, TLC

VARIABLES
    opc,        \* orchestrator: "down" (no process), "jobs" (export_jobs loop), "pool" (inside a job's executor)
    data,       \* ExportTracker._data of the running process
    lock,       \* ExportTracker._lock: 0 when free, else the holding thread
    file,       \* contents of <export_root>/.bi_export_tracker.json
    tmp,        \* contents of <export_root>/.bi_export_tracker.tmp
    bak,        \* contents of <export_root>/.bi_export_tracker.json.bak
    now,        \* int(time.time())
    pc,         \* per thread: position in export_single_clip / record
    frame,      \* per thread: arguments of the record() call in progress
    phase,      \* per thread: which record() call of the worker is in progress
    wk,         \* per thread: locals of export_single_clip and its client-call counts
    job,        \* the job being exported: camera and clip listing
    results,    \* export_clips_for_job: results collected so far
    collected,  \* futures whose result as_completed has yielded
    all_results,\* export_jobs: accumulated results of the run
    runs,       \* export_jobs invocations started so far
    jobsDone,   \* jobs finished in the current run
    disk,       \* exported files under the job's target directory: name -> "complete" | "partial"
    bi,         \* the shared BlueIrisClient, its callers inside _post and the server's sessions
    sched,      \* bi_scheduler: the arguments of build_weekend_jobs and, once built, its jobs
    hist        \* history: events applied by record(), successes and returned results, over all runs;
                \* clips listed in the current run; saves that raised; record() calls that
                \* have saved in the current process; whether the store
                \* holds a mutation whose save raised and that no later save has written

vars == <<opc, data, lock, file, tmp, bak, now, pc, frame, phase, wk, job,
          results, collected, all_results, runs, jobsDone, disk, sched, bi, hist>>

\* ---------------------------------------------------------------- bounds

NThreads == 3
MaxRuns == 3
MaxCrashes == 1
PollBound == 2
LogCalls == 302

\* ------------------------------------------------------ program constants

EventCap == 300
PollAttempts == 300

Threads == 1 .. NThreads
Statuses == {"success", "failed", "skipped"}
Null == "null"

\* ------------------------------------------------------------- dict helpers

EmptyMap == [k \in {} |-> k]

Get(m, k, default) == IF k \in DOMAIN m THEN m[k] ELSE default

Put(m, k, v) == [x \in DOMAIN m \cup {k} |-> IF x = k THEN v ELSE m[x]]

\* dict.update
Update(old, new) ==
    [f \in DOMAIN old \cup DOMAIN new |-> IF f \in DOMAIN new THEN new[f] ELSE old[f]]

\* Python truthiness of a string-or-None field value
Truthy(v) == v # "" /\ v # Null

\* seq[-n:]
LastN(s, n) == IF Len(s) <= n THEN s ELSE SubSeq(s, Len(s) - n + 1, Len(s))

\* ------------------------------------------------------------------ files

Absent == [kind |-> "absent"]
Partial == [kind |-> "partial"]
Corrupt == [kind |-> "corrupt", bytes |-> "garbage"]

\* json.dumps(self._data, indent=2, sort_keys=True)
Dumps(d) == [kind |-> "json", body |-> d]

Parses(f) == f.kind = "json"

\* json.loads of a file that parses
Loads(f) == f.body

ZeroCounters == [success |-> 0, failed |-> 0, skipped |-> 0]

FreshStore(t) ==
    [version |-> 1, created_at_utc |-> t, updated_at_utc |-> t,
     clips |-> EmptyMap, events |-> <<>>, counters |-> ZeroCounters,
     per_camera |-> EmptyMap]

NoData == [version |-> 0]

clip_key(camera, clip_path) == camera \o "|" \o clip_path

HasSuccessMissing(d, camera, clip_path) == FALSE

has_success(d, camera, clip_path) ==
    LET key == clip_key(camera, clip_path)
    IN  /\ key \in DOMAIN d.clips
        /\ Get(d.clips[key], "status", Null) = "success"

\* ------------------------------------------------------ ExportTracker.record

\* the event appended by record(): filename, export_id and error only when truthy
EventOf(camera, clip_path, status, fields, ts) ==
    LET base == [ts_utc |-> ts, camera |-> camera, clip |-> clip_path, status |-> status]
        keep == {k \in {"filename", "export_id", "error"} :
                    k \in DOMAIN fields /\ Truthy(fields[k])}
    IN  Update(base, [k \in keep |-> fields[k]])

Coerce(status) == IF status \notin Statuses THEN "failed" ELSE status

TruncFirst(s) == IF Len(s) <= EventCap THEN s ELSE SubSeq(s, 1, EventCap)

\* self._data["events"][-300:]
Trunc(s) == LastN(s, EventCap)

MutatedResetCamera(d, camera, clip_path, status, fields, ts) ==
    LET key == clip_key(camera, clip_path)
        rec == Update(Update(Get(d.clips, key, EmptyMap),
                             [camera |-> camera, clip |-> clip_path,
                              status |-> status, updated_at_utc |-> ts]),
                      fields)
        st == Coerce(status)
        camc == ZeroCounters
    IN  [d EXCEPT
            !.clips = Put(d.clips, key, rec),
            !.counters = Put(d.counters, st, Get(d.counters, st, 0) + 1),
            !.per_camera = Put(d.per_camera, camera, Put(camc, st, Get(camc, st, 0) + 1)),
            !.events = Trunc(Append(d.events, EventOf(camera, clip_path, st, fields, ts))),
            !.updated_at_utc = ts]

\* lines 137-168: the store after record(camera, clip_path, status, **fields) at time ts
Mutated(d, camera, clip_path, status, fields, ts) ==
    LET key == clip_key(camera, clip_path)
        rec == Update(Update(Get(d.clips, key, EmptyMap),
                             [camera |-> camera, clip |-> clip_path,
                              status |-> status, updated_at_utc |-> ts]),
                      fields)
        st == Coerce(status)
        camc == Get(d.per_camera, camera, ZeroCounters)
    IN  [d EXCEPT
            !.clips = Put(d.clips, key, rec),
            !.counters = Put(d.counters, st, Get(d.counters, st, 0) + 1),
            !.per_camera = Put(d.per_camera, camera, Put(camc, st, Get(camc, st, 0) + 1)),
            !.events = Trunc(Append(d.events, EventOf(camera, clip_path, st, fields, ts))),
            !.updated_at_utc = ts]

\* ------------------------------------------------------------ thread state

NoStatus == [status |-> "none"]
NoResult == [status |-> "none"]
NoFrame == [status |-> "none"]

IdleWorker ==
    [camera |-> "", clip |-> "", started |-> 0, export_id |-> "", polls |-> 0,
     last |-> NoStatus, polled |-> FALSE, resp |-> "none", nEnq |-> 0, nDl |-> 0,
     late |-> FALSE, result |-> NoResult]

NoJob == [camera |-> "", clips |-> <<>>]

NoHist ==
    [applied |-> <<>>, succeeded |-> {},
     returned |-> ZeroCounters, crashes |-> 0, calls |-> 0, listed |-> 0,
     saveFails |-> 0, saved |-> 0, unsaved |-> FALSE]

NoSched == [built |-> FALSE]

\* no BlueIrisClient has been constructed
NoClient == [made |-> FALSE]

\* the file system and the process before anything has run
InitWith(f) ==
    /\ sched = NoSched
    /\ bi = NoClient
    /\ opc = "down"
    /\ data = NoData
    /\ lock = 0
    /\ file = f
    /\ tmp = Absent
    /\ bak = Absent
    /\ now = 0
    /\ pc = [t \in Threads |-> "idle"]
    /\ frame = [t \in Threads |-> NoFrame]
    /\ phase = [t \in Threads |-> "none"]
    /\ wk = [t \in Threads |-> IdleWorker]
    /\ job = NoJob
    /\ results = <<>>
    /\ collected = {}
    /\ all_results = <<>>
    /\ runs = 0
    /\ jobsDone = 0
    /\ disk = EmptyMap
    /\ hist = NoHist

Init == InitWith(Absent)

\* ------------------------------------------- ExportTracker.__init__ / _load

\* _load: a missing file gives a fresh store, a file that parses is returned as
\* parsed; otherwise the file is renamed to the backup name (a rename that
\* raises is swallowed) and a fresh store is returned
Load ==
    IF file = Absent
    THEN /\ data' = FreshStore(now)
         /\ UNCHANGED <<file, bak>>
    ELSE IF Parses(file)
    THEN /\ data' = Loads(file)
         /\ UNCHANGED <<file, bak>>
    ELSE /\ data' = FreshStore(now)
         /\ \E renamed \in BOOLEAN :
                IF renamed
                THEN file' = Absent /\ bak' = file
                ELSE UNCHANGED <<file, bak>>

\* ExportTracker(export_root) in a process that only uses the tracker
Construct ==
    /\ opc = "down"
    /\ runs < MaxRuns
    /\ Load
    /\ opc' = "jobs"
    /\ runs' = runs + 1
    /\ lock' = 0
    /\ UNCHANGED <<bi, sched, tmp, now, pc, frame, phase, wk, job, results, collected,
                   all_results, jobsDone, hist, disk>>

\* --------------------------------------------------- record(), step by step

Call(t, camera, clip_path, status, fields, ph) ==
    /\ frame' = [frame EXCEPT ![t] =
                    [camera |-> camera, clip |-> clip_path, status |-> status,
                     fields |-> fields, now |-> now, pre |-> NoData, doc |-> Absent]]
    /\ phase' = [phase EXCEPT ![t] = ph]

RecordLockedNoLock(t) ==
    /\ pc[t] = "rec_lock"
    /\ LET f == frame[t]
       IN  /\ data' = Mutated(data, f.camera, f.clip, f.status, f.fields, f.now)
           /\ hist' = [hist EXCEPT
                  !.applied = Append(@, EventOf(f.camera, f.clip, Coerce(f.status), f.fields, f.now)),
                  !.succeeded = IF f.status = "success"
                                THEN @ \cup {clip_key(f.camera, f.clip)} ELSE @]
    /\ frame' = [frame EXCEPT ![t].pre = data]
    /\ pc' = [pc EXCEPT ![t] = "save_open"]
    /\ UNCHANGED <<bi, sched, opc, lock, file, tmp, bak, now, phase, wk, job, results,
                   collected, all_results, runs, jobsDone, disk>>

\* with self._lock: ... lines 135-168
RecordLocked(t) ==
    /\ pc[t] = "rec_lock"
    /\ lock = 0
    /\ lock' = t
    /\ LET f == frame[t]
       IN  /\ data' = Mutated(data, f.camera, f.clip, f.status, f.fields, f.now)
           /\ hist' = [hist EXCEPT
                  !.applied = Append(@, EventOf(f.camera, f.clip, Coerce(f.status), f.fields, f.now)),
                  !.succeeded = IF f.status = "success"
                                THEN @ \cup {clip_key(f.camera, f.clip)} ELSE @]
    /\ frame' = [frame EXCEPT ![t].pre = data]
    /\ pc' = [pc EXCEPT ![t] = "save_open"]
    /\ UNCHANGED <<bi, sched, opc, file, tmp, bak, now, phase, wk, job, results,
                   collected, all_results, runs, jobsDone, disk>>

SaveOpenInPlace(t) ==
    /\ pc[t] = "save_open"
    /\ file' = Partial
    /\ frame' = [frame EXCEPT ![t].doc = Dumps(data)]
    /\ pc' = [pc EXCEPT ![t] = "save_write"]
    /\ UNCHANGED <<bi, sched, opc, data, lock, tmp, bak, now, phase, wk, job, results,
                   collected, all_results, runs, jobsDone, hist, disk>>

SaveOpenUnlocked(t) ==
    /\ pc[t] = "save_open"
    /\ lock' = 0
    /\ tmp' = Partial
    /\ frame' = [frame EXCEPT ![t].doc = Dumps(data)]
    /\ pc' = [pc EXCEPT ![t] = "save_write"]
    /\ UNCHANGED <<bi, sched, opc, data, file, bak, now, phase, wk, job, results,
                   collected, all_results, runs, jobsDone, hist, disk>>

\* tmp.write_text(json.dumps(self._data, ...)): the document is serialised, then
\* the temporary file is opened and truncated
SaveOpen(t) ==
    /\ pc[t] = "save_open"
    /\ tmp' = Partial
    /\ frame' = [frame EXCEPT ![t].doc = Dumps(data)]
    /\ pc' = [pc EXCEPT ![t] = "save_write"]
    /\ UNCHANGED <<bi, sched, opc, data, lock, file, bak, now, phase, wk, job, results,
                   collected, all_results, runs, jobsDone, hist, disk>>

\* tmp.write_text(...): the whole document is written and the file closed
SaveWrite(t) ==
    /\ pc[t] = "save_write"
    /\ tmp' = frame[t].doc
    /\ pc' = [pc EXCEPT ![t] = "save_replace"]
    /\ UNCHANGED <<bi, sched, opc, data, lock, file, bak, now, frame, phase, wk, job, results,
                   collected, all_results, runs, jobsDone, hist, disk>>

\* tmp.replace(self.path), then the lock is released; a missing temporary
\* file raises out of record()
SaveReplace(t) ==
    /\ pc[t] = "save_replace"
    /\ IF tmp = Absent
       THEN /\ pc' = [pc EXCEPT ![t] = "raised"]
            /\ UNCHANGED <<file, tmp>>
       ELSE /\ file' = tmp
            /\ tmp' = Absent
            /\ pc' = [pc EXCEPT ![t] = "rec_ret"]
    /\ hist' = [hist EXCEPT !.unsaved = (tmp = Absent),
                          !.saved = IF tmp = Absent THEN @ ELSE @ + 1]
    /\ lock' = IF lock = t THEN 0 ELSE lock
    /\ UNCHANGED <<bi, sched, opc, data, bak, now, frame, phase, wk, job, results,
                   collected, all_results, runs, jobsDone, disk>>

\* the process is killed: memory is lost, the files stay as they are
Crash ==
    /\ opc # "down"
    /\ hist.crashes < MaxCrashes
    /\ opc' = "down"
    /\ data' = NoData
    /\ lock' = 0
    /\ pc' = [t \in Threads |-> "idle"]
    /\ frame' = [t \in Threads |-> NoFrame]
    /\ phase' = [t \in Threads |-> "none"]
    /\ wk' = [t \in Threads |-> IdleWorker]
    /\ job' = NoJob
    /\ results' = <<>>
    /\ collected' = {}
    /\ all_results' = <<>>
    /\ jobsDone' = 0
    /\ hist' = [hist EXCEPT !.crashes = @ + 1, !.listed = 0, !.saved = 0, !.unsaved = FALSE]
    /\ UNCHANGED <<bi, sched, file, tmp, bak, now, runs, disk>>

\* ------------------------------------- threads that call record() directly

CallStatuses == Statuses \cup {"weird"}

ThreadCamera(t) == IF t = NThreads THEN "back" ELSE "front"

ThreadClip(t) == "@clip" \o ToString(t)

\* a thread calls tracker.record(camera, clip, status) for its own identity
CallRecord(t, statuses) ==
    /\ opc = "jobs"
    /\ pc[t] = "idle"
    /\ \E status \in statuses :
          Call(t, ThreadCamera(t), ThreadClip(t), status, EmptyMap, "call")
    /\ pc' = [pc EXCEPT ![t] = "rec_lock"]
    /\ UNCHANGED <<bi, sched, opc, data, lock, file, tmp, bak, now, wk, job, results,
                   collected, all_results, runs, jobsDone, hist, disk>>

\* record() returns to the calling thread
CallReturn(t) ==
    /\ pc[t] = "rec_ret"
    /\ phase[t] = "call"
    /\ pc' = [pc EXCEPT ![t] = "done"]
    /\ UNCHANGED <<bi, sched, opc, data, lock, file, tmp, bak, now, frame, phase, wk, job,
                   results, collected, all_results, runs, jobsDone, hist, disk>>

RecordSteps(t) ==
    \/ RecordLocked(t)
    \/ SaveOpen(t)
    \/ SaveWrite(t)
    \/ SaveReplace(t)

\* N threads, one record() each for its own identity, on a store that starts empty
NextStore ==
    \/ Construct
    \/ \E t \in Threads : CallRecord(t, CallStatuses) \/ RecordSteps(t) \/ CallReturn(t)

SpecStore == Init /\ [][NextStore]_vars

CrashThreads == {1, 2}

\* two threads, with the process killed at any point and the tracker constructed again
NextCrash ==
    \/ Construct
    \/ Crash
    \/ \E t \in CrashThreads :
          CallRecord(t, {"success", "failed"}) \/ RecordSteps(t) \/ CallReturn(t)

SpecCrash == Init /\ [][NextCrash]_vars

\* ------------------------------------------------- the client (bi_client)

\* what create_export can do: return BI's data with the export item's path,
\* return data without it, or raise
EnqueueOutcomes ==
    {[kind |-> "data", data |-> [path |-> "E1"]],
     [kind |-> "data", data |-> EmptyMap],
     [kind |-> "raise", msg |-> "export enqueue failed"]}

ClipUri == <<"Clipboard", "front.mp4">>

\* what check_export_status can do: return a status dict or raise; a uri is the
\* sequence of its backslash-separated segments, <<"">> the empty string
PollOutcomes ==
    {[kind |-> "data", data |-> [status |-> "processing"]],
     [kind |-> "data", data |-> [status |-> "done", uri |-> ClipUri, filesize |-> "1024"]],
     [kind |-> "data", data |-> [status |-> "done"]],
     [kind |-> "data", data |-> [status |-> "done", uri |-> <<"">>]],
     [kind |-> "data", data |-> [status |-> "error", error |-> "disk full"]],
     [kind |-> "data", data |-> [status |-> "error"]],
     [kind |-> "raise", msg |-> "export status failed"]}

\* what download_file can do: write the whole file, or raise after writing
\* nothing or a part of it to the output path
DownloadOutcomes == {"ok", "raise_empty", "raise_partial"}

\* uri.split("\\")[-1]
Filename(uri) == uri[Len(uri)]

\* ------------------------------------------------------- export_single_clip

Key(t) == clip_key(wk[t].camera, wk[t].clip)

Result(t, status, extra) ==
    Update([camera |-> wk[t].camera, clip |-> wk[t].clip, status |-> status], extra)

FailUncaught(t, msg) ==
    /\ pc' = [pc EXCEPT ![t] = "raised"]
    /\ UNCHANGED <<frame, phase>>

\* except Exception as e: tracker.record(..., "failed", ..., error=str(e))
Fail(t, msg) ==
    /\ Call(t, wk[t].camera, wk[t].clip, "failed",
            [started_at_utc |-> wk[t].started, finished_at_utc |-> now, error |-> msg],
            "failed")
    /\ pc' = [pc EXCEPT ![t] = "rec_lock"]

Return(t, w, res) ==
    /\ wk' = [wk EXCEPT ![t] = [w EXCEPT !.result = res]]
    /\ pc' = [pc EXCEPT ![t] = "done"]
    /\ hist' = [hist EXCEPT !.returned[res.status] = @ + 1]

\* lines 183-189: the dedup check; on a hit the skip is recorded
CheckDedup(t) ==
    /\ pc[t] = "check"
    /\ lock = 0
    /\ IF has_success(data, wk[t].camera, wk[t].clip)
       THEN /\ Call(t, wk[t].camera, wk[t].clip, "skipped",
                    [reason |-> "dedupe_success"], "skip")
            /\ pc' = [pc EXCEPT ![t] = "rec_lock"]
            /\ UNCHANGED wk
       ELSE /\ wk' = [wk EXCEPT ![t].started = now]
            /\ pc' = [pc EXCEPT ![t] = "enqueue"]
            /\ UNCHANGED <<frame, phase>>
    /\ UNCHANGED <<bi, sched, opc, data, lock, file, tmp, bak, now, job, results, collected,
                   all_results, runs, jobsDone, disk, hist>>

\* line 187: the skip's record() has returned
SkipReturn(t) ==
    /\ pc[t] = "rec_ret"
    /\ phase[t] = "skip"
    /\ Return(t, wk[t], Result(t, "skipped", [reason |-> "already_exported"]))
    /\ UNCHANGED <<bi, sched, opc, data, lock, file, tmp, bak, now, frame, phase, job, results,
                   collected, all_results, runs, jobsDone, disk>>

EnqueueNoMarker(t) ==
    /\ pc[t] = "enqueue"
    /\ \E r \in EnqueueOutcomes :
          IF r.kind = "raise"
          THEN /\ Fail(t, r.msg)
               /\ wk' = [wk EXCEPT ![t].nEnq = @ + 1]
          ELSE IF "path" \notin DOMAIN r.data
          THEN /\ Fail(t, "'path'")
               /\ wk' = [wk EXCEPT ![t].nEnq = @ + 1]
          ELSE /\ wk' = [wk EXCEPT ![t].nEnq = @ + 1, ![t].export_id = r.data.path]
               /\ pc' = [pc EXCEPT ![t] = "poll"]
               /\ UNCHANGED <<frame, phase>>
    /\ UNCHANGED <<bi, sched, opc, data, lock, file, tmp, bak, now, job, results, collected,
                   all_results, runs, jobsDone, disk, hist>>

\* lines 194-203: create_export, then the interim marker is recorded
Enqueue(t) ==
    /\ pc[t] = "enqueue"
    /\ \E r \in EnqueueOutcomes :
          IF r.kind = "raise"
          THEN /\ Fail(t, r.msg)
               /\ wk' = [wk EXCEPT ![t].nEnq = @ + 1]
          ELSE IF "path" \notin DOMAIN r.data
          THEN /\ Fail(t, "'path'")
               /\ wk' = [wk EXCEPT ![t].nEnq = @ + 1]
          ELSE /\ wk' = [wk EXCEPT ![t].nEnq = @ + 1, ![t].export_id = r.data.path]
               /\ Call(t, wk[t].camera, wk[t].clip, "skipped",
                       [started_at_utc |-> wk[t].started, export_id |-> r.data.path,
                        reason |-> "queued"],
                       "marker")
               /\ pc' = [pc EXCEPT ![t] = "rec_lock"]
    /\ UNCHANGED <<bi, sched, opc, data, lock, file, tmp, bak, now, job, results, collected,
                   all_results, runs, jobsDone, disk, hist>>

\* line 204: the marker's record() has returned; the poll loop starts
MarkerReturn(t) ==
    /\ pc[t] = "rec_ret"
    /\ phase[t] = "marker"
    /\ pc' = [pc EXCEPT ![t] = "poll"]
    /\ UNCHANGED <<bi, sched, opc, data, lock, file, tmp, bak, now, frame, phase, wk, job,
                   results, collected, all_results, runs, jobsDone, disk, hist>>

\* str() of a status dict that holds its status alone
Repr(st) == "{'status': '" \o st.status \o "'}"

ExhaustedMsg(last) == "Export did not reach done status (last=" \o Repr(last) \o ")"

PollOneMore(t, limit) ==
    /\ pc[t] = "poll"
    /\ \E r \in PollOutcomes :
          LET st == IF r.kind = "data" THEN r.data ELSE EmptyMap
              again == /\ r.kind = "data"
                       /\ st.status \notin {"done", "error"}
                       /\ wk[t].polls + 1 <= limit
          IN  /\ wk' = [wk EXCEPT ![t].polls = IF again THEN @ + 1 ELSE 0,
                                  ![t].polled = TRUE,
                                  ![t].resp = r.kind,
                                  ![t].last = IF r.kind = "data" THEN r.data ELSE @]
              /\ IF r.kind = "raise"
                 THEN Fail(t, r.msg)
                 ELSE IF st.status = "done"
                 THEN IF "uri" \notin DOMAIN st \/ st.uri = <<"">>
                      THEN Fail(t, "Export completed but no URI returned")
                      ELSE /\ pc' = [pc EXCEPT ![t] = "download"]
                           /\ UNCHANGED <<frame, phase>>
                 ELSE IF st.status = "error"
                 THEN Fail(t, Get(st, "error", "Unknown export error"))
                 ELSE IF ~again
                 THEN Fail(t, ExhaustedMsg(st))
                 ELSE UNCHANGED <<pc, frame, phase>>
    /\ UNCHANGED <<bi, sched, opc, data, lock, file, tmp, bak, now, job, results, collected,
                   all_results, runs, jobsDone, disk, hist>>

PollIgnoresError(t, limit) ==
    /\ pc[t] = "poll"
    /\ \E r \in PollOutcomes :
          LET st == IF r.kind = "data" THEN r.data ELSE EmptyMap
              again == /\ r.kind = "data"
                       /\ st.status \notin {"done"}
                       /\ wk[t].polls + 1 < limit
          IN  /\ wk' = [wk EXCEPT ![t].polls = IF again THEN @ + 1 ELSE 0,
                                  ![t].polled = TRUE,
                                  ![t].resp = r.kind,
                                  ![t].last = IF r.kind = "data" THEN r.data ELSE @]
              /\ IF r.kind = "raise"
                 THEN Fail(t, r.msg)
                 ELSE IF st.status = "done"
                 THEN IF "uri" \notin DOMAIN st \/ st.uri = <<"">>
                      THEN Fail(t, "Export completed but no URI returned")
                      ELSE /\ pc' = [pc EXCEPT ![t] = "download"]
                           /\ UNCHANGED <<frame, phase>>
                 ELSE IF ~again
                 THEN Fail(t, ExhaustedMsg(st))
                 ELSE UNCHANGED <<pc, frame, phase>>
    /\ UNCHANGED <<bi, sched, opc, data, lock, file, tmp, bak, now, job, results, collected,
                   all_results, runs, jobsDone, disk, hist>>

\* lines 208-244: one iteration of the poll loop (of `limit` attempts; polls is
\* the number of completed iterations while the loop runs): a done status with
\* a uri goes on to the download; a done status without one, an error status,
\* a raising call and a non-terminal status on the last attempt fail the clip;
\* any other status sleeps and polls again
Poll(t, limit) ==
    /\ pc[t] = "poll"
    /\ \E r \in PollOutcomes :
          LET st == IF r.kind = "data" THEN r.data ELSE EmptyMap
              again == /\ r.kind = "data"
                       /\ st.status \notin {"done", "error"}
                       /\ wk[t].polls + 1 < limit
          IN  /\ wk' = [wk EXCEPT ![t].polls = IF again THEN @ + 1 ELSE 0,
                                  ![t].polled = TRUE,
                                  ![t].resp = r.kind,
                                  ![t].last = IF r.kind = "data" THEN r.data ELSE @]
              /\ IF r.kind = "raise"
                 THEN Fail(t, r.msg)
                 ELSE IF st.status = "done"
                 THEN IF "uri" \notin DOMAIN st \/ st.uri = <<"">>
                      THEN Fail(t, "Export completed but no URI returned")
                      ELSE /\ pc' = [pc EXCEPT ![t] = "download"]
                           /\ UNCHANGED <<frame, phase>>
                 ELSE IF st.status = "error"
                 THEN Fail(t, Get(st, "error", "Unknown export error"))
                 ELSE IF ~again
                 THEN Fail(t, ExhaustedMsg(st))
                 ELSE UNCHANGED <<pc, frame, phase>>
    /\ UNCHANGED <<bi, sched, opc, data, lock, file, tmp, bak, now, job, results, collected,
                   all_results, runs, jobsDone, disk, hist>>

\* lines 219-234: the download, then the success is recorded
Download(t) ==
    /\ pc[t] = "download"
    /\ wk' = [wk EXCEPT ![t].nDl = @ + 1]
    /\ LET st == wk[t].last
           filename == Filename(st.uri)
       IN  \E r \in DownloadOutcomes :
              IF r = "ok"
              THEN /\ disk' = Put(disk, filename, "complete")
                   /\ Call(t, wk[t].camera, wk[t].clip, "success",
                           [started_at_utc |-> wk[t].started, finished_at_utc |-> now,
                            export_id |-> wk[t].export_id, filename |-> filename,
                            uri |-> st.uri, filesize |-> Get(st, "filesize", Null)],
                           "success")
                   /\ pc' = [pc EXCEPT ![t] = "rec_lock"]
              ELSE /\ disk' = IF r = "raise_partial"
                              THEN Put(disk, filename, "partial") ELSE disk
                   /\ Fail(t, "download failed")
    /\ UNCHANGED <<bi, sched, opc, data, lock, file, tmp, bak, now, job, results, collected,
                   all_results, runs, jobsDone, hist>>

\* line 237: the success's record() has returned
SuccessReturn(t) ==
    /\ pc[t] = "rec_ret"
    /\ phase[t] = "success"
    /\ Return(t, wk[t], Result(t, "success", [file |-> frame[t].fields.filename]))
    /\ UNCHANGED <<bi, sched, opc, data, lock, file, tmp, bak, now, frame, phase, job, results,
                   collected, all_results, runs, jobsDone, disk>>

\* line 255: the failure's record() has returned
FailedReturn(t) ==
    /\ pc[t] = "rec_ret"
    /\ phase[t] = "failed"
    /\ Return(t, wk[t], Result(t, "failed", [error |-> frame[t].fields.error]))
    /\ UNCHANGED <<bi, sched, opc, data, lock, file, tmp, bak, now, frame, phase, job, results,
                   collected, all_results, runs, jobsDone, disk>>

Worker(t, limit) ==
    \/ CheckDedup(t)
    \/ SkipReturn(t)
    \/ Enqueue(t)
    \/ MarkerReturn(t)
    \/ Poll(t, limit)
    \/ Download(t)
    \/ SuccessReturn(t)
    \/ FailedReturn(t)
    \/ RecordSteps(t)

\* ------------------------------------ export_clips_for_job and export_jobs

Tasks == 1 .. Len(job.clips)

Running == {t \in Threads : pc[t] \notin {"idle", "queued", "done", "raised"}}

ListClipsTouching(cameras, listings, maxJobs) ==
    /\ opc = "jobs"
    /\ jobsDone < maxJobs
    /\ \E camera \in cameras, clips \in listings :
          /\ job' = [camera |-> camera, clips |-> clips]
          /\ hist' = [hist EXCEPT !.listed = @ + Len(clips)]
          /\ IF clips = <<>>
             THEN /\ jobsDone' = jobsDone + 1
                  /\ data' = [data EXCEPT !.counters.skipped = @ + 1]
                  /\ UNCHANGED <<opc, pc>>
             ELSE /\ opc' = "pool"
                  /\ pc' = [t \in Threads |-> IF t <= Len(clips) THEN "queued" ELSE "idle"]
                  /\ UNCHANGED <<jobsDone, data>>
    /\ results' = <<>>
    /\ collected' = {}
    /\ UNCHANGED <<bi, sched, lock, file, tmp, bak, now, frame, phase, wk, all_results,
                   runs, disk>>

\* lines 263-291: the clips of the next job are listed; with none the job
\* returns [] at once, otherwise one task per clip is submitted to a new pool
ListClips(cameras, listings, maxJobs) ==
    /\ opc = "jobs"
    /\ jobsDone < maxJobs
    /\ \E camera \in cameras, clips \in listings :
          /\ job' = [camera |-> camera, clips |-> clips]
          /\ hist' = [hist EXCEPT !.listed = @ + Len(clips)]
          /\ IF clips = <<>>
             THEN /\ jobsDone' = jobsDone + 1
                  /\ UNCHANGED <<opc, pc>>
             ELSE /\ opc' = "pool"
                  /\ pc' = [t \in Threads |-> IF t <= Len(clips) THEN "queued" ELSE "idle"]
                  /\ UNCHANGED jobsDone
    /\ results' = <<>>
    /\ collected' = {}
    /\ UNCHANGED <<bi, sched, data, lock, file, tmp, bak, now, frame, phase, wk, all_results,
                   runs, disk>>

StartTaskUnbounded(t, maxWorkers) ==
    /\ opc = "pool"
    /\ pc[t] = "queued"
    /\ \A u \in Tasks : u < t => pc[u] # "queued"
    /\ wk' = [wk EXCEPT ![t] =
                [IdleWorker EXCEPT !.camera = job.camera, !.clip = job.clips[t],
                                   !.late = clip_key(job.camera, job.clips[t]) \in hist.succeeded]]
    /\ frame' = [frame EXCEPT ![t] = NoFrame]
    /\ phase' = [phase EXCEPT ![t] = "none"]
    /\ pc' = [pc EXCEPT ![t] = "check"]
    /\ UNCHANGED <<bi, sched, opc, data, lock, file, tmp, bak, now, job, results,
                   collected, all_results, runs, jobsDone, disk, hist>>

\* a pool thread takes the next queued task and calls export_single_clip;
\* ThreadPoolExecutor(max_workers) runs at most max_workers tasks at a time
StartTask(t, maxWorkers) ==
    /\ opc \in {"pool", "abort"}
    /\ pc[t] = "queued"
    /\ \A u \in Tasks : u < t => pc[u] # "queued"
    /\ Cardinality(Running) < maxWorkers
    /\ wk' = [wk EXCEPT ![t] =
                [IdleWorker EXCEPT !.camera = job.camera, !.clip = job.clips[t],
                                   !.late = clip_key(job.camera, job.clips[t]) \in hist.succeeded]]
    /\ frame' = [frame EXCEPT ![t] = NoFrame]
    /\ phase' = [phase EXCEPT ![t] = "none"]
    /\ pc' = [pc EXCEPT ![t] = "check"]
    /\ UNCHANGED <<bi, sched, opc, data, lock, file, tmp, bak, now, job, results,
                   collected, all_results, runs, jobsDone, disk, hist>>

\* lines 292-293: as_completed yields a finished future, its result is appended
Collect(t) ==
    /\ opc = "pool"
    /\ pc[t] = "done"
    /\ t \notin collected
    /\ results' = Append(results, wk[t].result)
    /\ collected' = collected \cup {t}
    /\ UNCHANGED <<bi, sched, opc, data, lock, file, tmp, bak, now, pc, frame, phase, wk, job,
                   all_results, runs, jobsDone, disk, hist>>

JobReturnEarly ==
    /\ opc = "pool"
    /\ collected # {}
    /\ all_results' = all_results \o results
    /\ jobsDone' = jobsDone + 1
    /\ opc' = "jobs"
    /\ pc' = [t \in Threads |-> "idle"]
    /\ UNCHANGED <<bi, sched, data, lock, file, tmp, bak, now, frame, phase, wk, job, results,
                   collected, runs, disk, hist>>

\* lines 295 and 314: every future has been collected, the executor is shut
\* down and the job's results are added to the run's
JobReturn ==
    /\ opc = "pool"
    /\ collected = Tasks
    /\ all_results' = all_results \o results
    /\ jobsDone' = jobsDone + 1
    /\ opc' = "jobs"
    /\ pc' = [t \in Threads |-> "idle"]
    /\ UNCHANGED <<bi, sched, data, lock, file, tmp, bak, now, frame, phase, wk, job, results,
                   collected, runs, disk, hist>>

\* line 316: the job list is exhausted, export_jobs returns and the process ends
RunReturn ==
    /\ opc = "jobs"
    /\ jobsDone > 0
    /\ opc' = "down"
    /\ data' = NoData
    /\ pc' = [t \in Threads |-> "idle"]
    /\ frame' = [t \in Threads |-> NoFrame]
    /\ phase' = [t \in Threads |-> "none"]
    /\ wk' = [t \in Threads |-> IdleWorker]
    /\ job' = NoJob
    /\ results' = <<>>
    /\ collected' = {}
    /\ all_results' = <<>>
    /\ jobsDone' = 0
    /\ hist' = [hist EXCEPT !.listed = 0, !.saved = 0, !.unsaved = FALSE]
    /\ UNCHANGED <<bi, sched, lock, file, tmp, bak, now, runs, disk>>

\* ------------------------------------------------------- specifications

MaxWorkers == 2

\* sequential runs of export_jobs over one tracker store, one job each, the
\* same clip listed every time
RunListings == {<<>>, <<"@clip1">>}

Next ==
    \/ Construct
    \/ ListClips({"front"}, RunListings, 1)
    \/ \E t \in Threads : StartTask(t, MaxWorkers) \/ Worker(t, PollBound) \/ Collect(t)
    \/ JobReturn
    \/ RunReturn

Spec == Init /\ [][Next]_vars

\* one run of one job whose clips run concurrently on the pool
PoolListings == {<<"@clip1", "@clip2">>}

\* the store one run leaves after exporting @clip1: marker, then success
PriorStore ==
    Mutated(Mutated(FreshStore(0), "front", "@clip1", "skipped",
                    [started_at_utc |-> 0, export_id |-> "E1", reason |-> "queued"], 0),
            "front", "@clip1", "success",
            [started_at_utc |-> 0, finished_at_utc |-> 0, export_id |-> "E1",
             filename |-> Filename(ClipUri), uri |-> ClipUri, filesize |-> "1024"], 0)

PriorHist ==
    [NoHist EXCEPT !.applied = PriorStore.events,
                   !.succeeded = {clip_key("front", "@clip1")},
                   !.returned = [ZeroCounters EXCEPT !.success = 1]]

\* the tracker file is absent, or the one an earlier run left
InitPool ==
    \/ InitWith(Absent)
    \/ /\ sched = NoSched
       /\ bi = NoClient
       /\ opc = "down" /\ data = NoData /\ lock = 0
       /\ file = Dumps(PriorStore) /\ tmp = Absent /\ bak = Absent /\ now = 0
       /\ pc = [t \in Threads |-> "idle"]
       /\ frame = [t \in Threads |-> NoFrame]
       /\ phase = [t \in Threads |-> "none"]
       /\ wk = [t \in Threads |-> IdleWorker]
       /\ job = NoJob /\ results = <<>> /\ collected = {} /\ all_results = <<>>
       /\ runs = 0 /\ jobsDone = 0
       /\ disk = Put(EmptyMap, Filename(ClipUri), "complete")
       /\ hist = PriorHist

NextPool ==
    \/ Construct
    \/ ListClips({"front"}, PoolListings, 1)
    \/ \E t \in Threads : StartTask(t, MaxWorkers) \/ Worker(t, PollBound) \/ Collect(t)
    \/ JobReturn

SpecPool == InitPool /\ [][NextPool]_vars

\* one thread calls record() LogCalls times in a row, each call with its own
\* number as export_id, the clock advancing by one second per call
LogStatus(n) == IF n % 3 = 0 THEN "success" ELSE IF n % 3 = 1 THEN "failed" ELSE "skipped"

LogCall ==
    /\ opc = "jobs"
    /\ pc[1] \in {"idle", "done"}
    /\ hist.calls < LogCalls
    /\ Call(1, ThreadCamera(1), ThreadClip(1), LogStatus(hist.calls),
            [export_id |-> ToString(hist.calls + 1)], "call")
    /\ pc' = [pc EXCEPT ![1] = "rec_lock"]
    /\ now' = now + 1
    /\ hist' = [hist EXCEPT !.calls = @ + 1]
    /\ UNCHANGED <<bi, sched, opc, data, lock, file, tmp, bak, wk, job, results, collected,
                   all_results, runs, jobsDone, disk>>

NextLog ==
    \/ Construct
    \/ LogCall
    \/ RecordSteps(1)
    \/ CallReturn(1)

SpecLog == Init /\ [][NextLog]_vars

\* the tracker is constructed over a file that does not parse, then used
InitCorrupt == InitWith(Corrupt)

NextCorrupt ==
    \/ Construct
    \/ \E t \in CrashThreads :
          CallRecord(t, {"success", "failed"}) \/ RecordSteps(t) \/ CallReturn(t)

SpecCorrupt == InitCorrupt /\ [][NextCorrupt]_vars

\* one job of two clips with the poll loop's real ceiling
NextPoll ==
    \/ Construct
    \/ ListClips({"front"}, PoolListings, 1)
    \/ \E t \in Threads : StartTask(t, MaxWorkers) \/ Worker(t, PollAttempts)

SpecPoll == InitPool /\ [][NextPoll]_vars

MaxJobs == 2
JobWorkers == 1

\* one run of MaxJobs jobs, each listing no clip or more clips than the pool
\* has workers; export_jobs returns when jobsDone = MaxJobs
JobListings == {<<>>, <<"@clip1", "@clip2">>}

\* ------------------------------------------------------------ bi_scheduler

SchedDays == 14

\* a "%Y-%m-%d" string is the triple of its fields; the strings offered are the
\* SchedDays consecutive days from 2026-02-23
DateStrings ==
    {<<2026, 2, d>> : d \in {x \in 23 .. 28 : x - 22 <= SchedDays}}
        \cup {<<2026, 3, d>> : d \in 1 .. SchedDays - 6}

CameraLists == {<<>>, <<"front">>, <<"front", "back">>}

\* datetime.strptime(s, "%Y-%m-%d"): midnight of that day
strptime(s) == [year |-> s[1], month |-> s[2], day |-> s[3]]

IsLeap(y) == y % 4 = 0 /\ (y % 100 # 0 \/ y % 400 = 0)

DaysInMonth(y, m) ==
    IF m = 2 THEN (IF IsLeap(y) THEN 29 ELSE 28)
    ELSE IF m \in {4, 6, 9, 11} THEN 30 ELSE 31

RECURSIVE DaysBeforeMonth(_, _)
DaysBeforeMonth(y, m) == IF m = 1 THEN 0 ELSE DaysBeforeMonth(y, m - 1) + DaysInMonth(y, m - 1)

\* datetime.toordinal(): 1 is 0001-01-01
toordinal(dt) ==
    LET y == dt.year - 1
    IN  y * 365 + y \div 4 - y \div 100 + y \div 400 + DaysBeforeMonth(dt.year, dt.month) + dt.day

\* datetime.weekday(): Monday is 0
weekday(dt) == (toordinal(dt) + 6) % 7

\* current <= end_date
DateLe(a, b) ==
    \/ a.year < b.year
    \/ a.year = b.year /\ a.month < b.month
    \/ a.year = b.year /\ a.month = b.month /\ a.day <= b.day

\* current + timedelta(days=1)
NextDay(dt) ==
    IF dt.day < DaysInMonth(dt.year, dt.month) THEN [dt EXCEPT !.day = @ + 1]
    ELSE IF dt.month < 12 THEN [dt EXCEPT !.month = @ + 1, !.day = 1]
    ELSE [year |-> dt.year + 1, month |-> 1, day |-> 1]

IsWeekendSatSun(dt) == weekday(dt) \in {5, 6}

\* current.weekday() in (4, 5, 6)
IsWeekend(dt) == weekday(dt) \in {4, 5, 6}

RECURSIVE generate_weekend_dates(_, _)
generate_weekend_dates(current, end_date) ==
    IF DateLe(current, end_date)
    THEN (IF IsWeekend(current) THEN <<current>> ELSE <<>>)
             \o generate_weekend_dates(NextDay(current), end_date)
    ELSE <<>>

\* the inner loop: one job per camera for the day
RECURSIVE DayJobs(_, _, _, _, _)
DayJobs(day, cameras, timezone, start_time, end_time) ==
    IF cameras = <<>> THEN <<>>
    ELSE <<[camera |-> Head(cameras), date |-> day, start |-> start_time,
            end |-> end_time, timezone |-> timezone]>>
             \o DayJobs(day, Tail(cameras), timezone, start_time, end_time)

\* the outer loop over the weekend dates
RECURSIVE AllJobs(_, _, _, _, _)
AllJobs(days, cameras, timezone, start_time, end_time) ==
    IF days = <<>> THEN <<>>
    ELSE DayJobs(Head(days), cameras, timezone, start_time, end_time)
             \o AllJobs(Tail(days), cameras, timezone, start_time, end_time)

build_weekend_jobs(start_date_str, end_date_str, cameras, timezone) ==
    AllJobs(generate_weekend_dates(strptime(start_date_str), strptime(end_date_str)),
            cameras, timezone, "18:00:00", "23:00:00")

\* the arguments are chosen, nothing else has run
InitSched ==
    /\ \E s \in DateStrings, e \in DateStrings, c \in CameraLists :
          sched = [built |-> FALSE, start |-> s, end |-> e, cameras |-> c]
    /\ bi = NoClient
    /\ opc = "down" /\ data = NoData /\ lock = 0
    /\ file = Absent /\ tmp = Absent /\ bak = Absent /\ now = 0
    /\ pc = [t \in Threads |-> "idle"]
    /\ frame = [t \in Threads |-> NoFrame]
    /\ phase = [t \in Threads |-> "none"]
    /\ wk = [t \in Threads |-> IdleWorker]
    /\ job = NoJob /\ results = <<>> /\ collected = {} /\ all_results = <<>>
    /\ runs = 0 /\ jobsDone = 0
    /\ disk = EmptyMap
    /\ hist = NoHist

\* build_weekend_jobs is called
SchedBuild ==
    /\ ~sched.built
    /\ "start" \in DOMAIN sched
    /\ sched' = [built |-> TRUE, start |-> sched.start, end |-> sched.end,
                 cameras |-> sched.cameras,
                 jobs |-> build_weekend_jobs(sched.start, sched.end, sched.cameras,
                                             "America/Chicago")]
    /\ UNCHANGED <<bi, opc, data, lock, file, tmp, bak, now, pc, frame, phase, wk, job,
                   results, collected, all_results, runs, jobsDone, disk, hist>>

NextSched == SchedBuild

SpecSched == InitSched /\ [][NextSched]_vars

MaxSaveFails == 2

DiskFull == "[Errno 28] No space left on device"

\* _save raises OSError on the temporary file (it cannot be opened, or the
\* write fails part-way): the lock is released and the error leaves record();
\* the marker and the success record are called inside the worker's try, so
\* the except handler records the failure; the skip record and the failed
\* record are not, so the error leaves export_single_clip
SaveFail(t) ==
    /\ pc[t] \in {"save_open", "save_write"}
    /\ hist.saveFails < MaxSaveFails
    /\ hist' = [hist EXCEPT !.saveFails = @ + 1, !.unsaved = TRUE]
    /\ lock' = IF lock = t THEN 0 ELSE lock
    /\ IF phase[t] \in {"marker", "success"}
       THEN Fail(t, DiskFull)
       ELSE /\ pc' = [pc EXCEPT ![t] = "raised"]
            /\ UNCHANGED <<frame, phase>>
    /\ UNCHANGED <<bi, sched, opc, data, file, tmp, bak, now, wk, job, results, collected,
                   all_results, runs, jobsDone, disk>>

\* line 293: f.result() re-raises the worker's exception; leaving the with
\* block shuts the executor down, which waits for the tasks still pending
CollectRaise(t) ==
    /\ opc = "pool"
    /\ pc[t] = "raised"
    /\ opc' = "abort"
    /\ UNCHANGED <<bi, sched, data, lock, file, tmp, bak, now, pc, frame, phase, wk, job, results,
                   collected, all_results, runs, jobsDone, disk, hist>>

\* the executor has shut down; the exception leaves export_clips_for_job and
\* export_jobs
RunError ==
    /\ opc = "abort"
    /\ \A t \in Tasks : pc[t] \in {"done", "raised"}
    /\ opc' = "error"
    /\ UNCHANGED <<bi, sched, data, lock, file, tmp, bak, now, pc, frame, phase, wk, job, results,
                   collected, all_results, runs, jobsDone, disk, hist>>

\* one job of two clips, over an empty or an earlier store, on a disk where
\* saving the tracker can fail
NextDisk ==
    \/ Construct
    \/ ListClips({"front"}, PoolListings, 1)
    \/ \E t \in Threads :
          \/ StartTask(t, MaxWorkers) \/ Worker(t, PollBound) \/ SaveFail(t)
          \/ Collect(t) \/ CollectRaise(t)
    \/ JobReturn
    \/ RunError

SpecDisk == InitPool /\ [][NextDisk]_vars

NextJobs ==
    \/ Construct
    \/ ListClips({"front"}, JobListings, MaxJobs)
    \/ \E t \in Threads : StartTask(t, JobWorkers) \/ Worker(t, PollBound) \/ Collect(t)
    \/ JobReturn

SpecJobs == Init /\ [][NextJobs]_vars

\* the listing of one job holds the same clip path twice
DupListings == {<<"@clip1", "@clip1">>}

NextDup ==
    \/ Construct
    \/ ListClips({"front"}, DupListings, 1)
    \/ \E t \in Threads : StartTask(t, MaxWorkers) \/ Worker(t, PollBound) \/ Collect(t)
    \/ JobReturn

\* one job whose two tasks are workers on the same clip identity
SpecDup == Init /\ [][NextDup]_vars

\* ---------------------------------------------- bi_client.BlueIrisClient

ClientThreads == 2
MaxExpiries == 2

\* the threads that call _post on the one shared client
PostThreads == 1 .. ClientThreads

\* everything but the client
ExporterVars ==
    <<opc, data, lock, file, tmp, bak, now, pc, frame, phase, wk, job,
      results, collected, all_results, runs, jobsDone, disk, sched, hist>>

\* a thread outside _post
IdleCaller ==
    [pc |-> "idle", i |-> 0, sent |-> 0, refreshes |-> 0, invalid |-> 0,
     from |-> "none", session |-> 0, body |-> 0, err |-> ""]

\* __init__: no session token yet (0 stands for None); the server side holds
\* the sessions it accepts, the number it has issued and the times it has
\* dropped its sessions
NewClient ==
    [made |-> TRUE, session_token |-> 0, valid |-> {}, issued |-> 0, expiries |-> 0,
     th |-> [t \in PostThreads |-> IdleCaller]]

MakeClient ==
    /\ ~bi.made
    /\ bi' = NewClient
    /\ UNCHANGED ExporterVars

Raise(t, msg) == bi' = [bi EXCEPT !.th[t].pc = "raised", !.th[t].err = msg]

\* a thread enters _post
PostCall(t) ==
    /\ bi.made
    /\ bi.th[t].pc = "idle"
    /\ bi' = [bi EXCEPT !.th[t].pc = "ensure"]
    /\ UNCHANGED ExporterVars

\* _ensure_logged_in: login() only when there is no token
EnsureLoggedIn(t) ==
    /\ bi.made
    /\ bi.th[t].pc = "ensure"
    /\ IF bi.session_token = 0
       THEN bi' = [bi EXCEPT !.th[t].pc = "login1", !.th[t].from = "ensure"]
       ELSE bi' = [bi EXCEPT !.th[t].pc = "build"]
    /\ UNCHANGED ExporterVars

\* login, step 1: the server issues a session, or the step raises (401,
\* another HTTP status, no session in the answer)
LoginStep1(t) ==
    /\ bi.made
    /\ bi.th[t].pc = "login1"
    /\ \E ok \in BOOLEAN :
          IF ok
          THEN bi' = [bi EXCEPT !.issued = @ + 1,
                                !.th[t].session = bi.issued + 1,
                                !.th[t].pc = "login2"]
          ELSE Raise(t, "Login step 1 failed")
    /\ UNCHANGED ExporterVars

\* the first statement after login() returns: the loop is entered from
\* _ensure_logged_in; after line 100 `continue` starts the next of the two
\* iterations or, after the second, leaves the loop into the raise of line 105
AfterLogin(t) ==
    IF bi.th[t].from = "ensure" THEN "build"
    ELSE IF bi.th[t].i + 1 < 2 THEN "build" ELSE "raised"

\* login, step 2: the server accepts the response hash and the client stores
\* the session as its token, or the step raises
LoginStep2(t) ==
    /\ bi.made
    /\ bi.th[t].pc = "login2"
    /\ \E ok \in BOOLEAN :
          IF ok
          THEN bi' = [bi EXCEPT
                        !.valid = @ \cup {bi.th[t].session},
                        !.session_token = bi.th[t].session,
                        !.th[t].pc = AfterLogin(t),
                        !.th[t].i = IF bi.th[t].from = "ensure" THEN @ ELSE @ + 1,
                        !.th[t].err = IF AfterLogin(t) = "raised"
                                      THEN "Request failed after session refresh retry"
                                      ELSE @]
          ELSE Raise(t, "Login failed")
    /\ UNCHANGED ExporterVars

\* lines 80-81: the body takes the token the client holds now
BuildBody(t) ==
    /\ bi.made
    /\ bi.th[t].pc = "build"
    /\ bi' = [bi EXCEPT !.th[t].body = bi.session_token, !.th[t].pc = "send"]
    /\ UNCHANGED ExporterVars

PostResponses == {"401", "500", "json"}

\* lines 83-103: the request is sent; 401 and any other non-200 status raise;
\* the server answers a session it does not accept with an invalid-session
\* failure, on which the client calls login() and continues; any other
\* answer is returned
Send(t) ==
    /\ bi.made
    /\ bi.th[t].pc = "send"
    /\ \E r \in PostResponses :
          IF r = "401"
          THEN bi' = [bi EXCEPT !.th[t].sent = @ + 1, !.th[t].pc = "raised",
                                !.th[t].err = "HTTP 401 Unauthorized (check credentials / web server auth)"]
          ELSE IF r = "500"
          THEN bi' = [bi EXCEPT !.th[t].sent = @ + 1, !.th[t].pc = "raised",
                                !.th[t].err = "HTTP 500"]
          ELSE IF bi.th[t].body \notin bi.valid
          THEN bi' = [bi EXCEPT !.th[t].sent = @ + 1, !.th[t].invalid = @ + 1,
                                !.th[t].refreshes = @ + 1,
                                !.th[t].from = "refresh", !.th[t].pc = "login1"]
          ELSE bi' = [bi EXCEPT !.th[t].sent = @ + 1, !.th[t].pc = "returned"]
    /\ UNCHANGED ExporterVars

\* the server drops the sessions it holds (timeout, restart)
Expire ==
    /\ bi.made
    /\ bi.expiries < MaxExpiries
    /\ bi.valid # {}
    /\ bi' = [bi EXCEPT !.valid = {}, !.expiries = @ + 1]
    /\ UNCHANGED ExporterVars

NextClient ==
    \/ MakeClient
    \/ Expire
    \/ \E t \in PostThreads :
          \/ PostCall(t) \/ EnsureLoggedIn(t) \/ LoginStep1(t) \/ LoginStep2(t)
          \/ BuildBody(t) \/ Send(t)

\* ClientThreads threads, one _post call each, on one client whose server
\* can drop its sessions
SpecClient == Init /\ [][NextClient]_vars

\* ------------------------------------------------------------ C3, C4

AllReturned == \A t \in Threads : pc[t] = "done"

ThreadKeys == {clip_key(ThreadCamera(t), ThreadClip(t)) : t \in Threads}

CounterSum(c) == c.success + c.failed + c.skipped

\* C3: N threads each call record() once for its own identity on a store that
\* started empty.  The record of every call that has returned is in the tracker
\* file as reloaded, and once all N have returned the file holds exactly the N
\* TrackerRecords and its global counters sum to N.
C3_AllPersist ==
    /\ \A t \in Threads :
          pc[t] = "done" =>
              /\ Parses(file)
              /\ clip_key(ThreadCamera(t), ThreadClip(t)) \in DOMAIN Loads(file).clips
              /\ Loads(file).clips[clip_key(ThreadCamera(t), ThreadClip(t))].status
                    = frame[t].status
    /\ AllReturned =>
          /\ DOMAIN Loads(file).clips = ThreadKeys
          /\ CounterSum(Loads(file).counters) = NThreads

C3_Witness ==
    /\ AllReturned
    /\ Parses(file)
    /\ Cardinality(DOMAIN Loads(file).clips) = NThreads
    /\ Len(Loads(file).events) = NThreads

\* C4: at every point of a record() call, and after the process is killed at
\* any such point, the tracker file is absent or a complete document: the
\* store before the mutation while the call is saving, the store after it once
\* the call has replaced the file; it is never a partially written file.
C4_AtomicPersist ==
    /\ file.kind \in {"absent", "json"}
    /\ \A t \in Threads :
          pc[t] \in {"save_open", "save_write", "save_replace"} =>
              file = Absent \/ file = Dumps(frame[t].pre)
    /\ (opc # "down" /\ lock = 0) => (file = Absent \/ file = Dumps(data))

C4_Witness ==
    /\ opc = "down"
    /\ hist.crashes > 0
    /\ tmp = Partial
    /\ Parses(file)
    /\ Len(Loads(file).events) = 1

\* ------------------------------------------------------------ C1, C2, C5

SuccessRecorded(t) ==
    /\ Key(t) \in DOMAIN data.clips
    /\ data.clips[Key(t)].status = "success"

C1_SkipPath ==
    \A t \in Threads :
        phase[t] = "skip" =>
            /\ wk[t].nEnq = 0 /\ ~wk[t].polled /\ wk[t].nDl = 0
            /\ pc[t] = "done" => wk[t].result.status = "skipped"

C1_Step ==
    \A t \in Threads :
        (pc[t] = "check" /\ pc'[t] # "check" /\ SuccessRecorded(t)) =>
            /\ phase'[t] = "skip"
            /\ pc'[t] = "rec_lock"
            /\ frame'[t].status = "skipped"

\* C1: a worker whose dedup check finds a TrackerRecord with status success for
\* its identity takes the skip path: it calls neither enqueue nor status nor
\* download, and it returns a result with status skipped.
C1_DedupSkip == []C1_SkipPath /\ [][C1_Step]_vars

C1_Witness ==
    \E t \in Threads :
        /\ pc[t] = "done" /\ phase[t] = "skip"
        /\ wk[t].result.status = "skipped" /\ wk[t].nEnq = 0

\* C2: a worker invocation that starts after a success has been recorded for
\* its identity, in this run or an earlier one over the same tracker store,
\* never calls enqueue.
C2_NoReexport == \A t \in Threads : wk[t].late => wk[t].nEnq = 0

\* C5: from an empty store, whenever no worker is running the global counters
\* equal the numbers of results the workers have returned with each status.
C5_CountersMatchResults ==
    (opc = "jobs" /\ \A t \in Threads : pc[t] = "idle") => data.counters = hist.returned

\* ------------------------------------------------------------ C8

Failed(t) == phase[t] = "failed"

JobReturned == opc = "jobs" /\ jobsDone > 0 /\ job.clips # <<>>

\* C8: no worker raises: one whose pipeline failed (enqueue, status, poll
\* budget or download) returns a result with status failed and the error; and
\* when export_clips_for_job returns, its list holds one result for every clip
\* of the job, the failed clips' with status failed.
C8_FailureIsolated ==
    /\ \A t \in Threads : pc[t] # "raised"
    /\ \A t \in Threads :
          (Failed(t) /\ pc[t] = "done") =>
              /\ wk[t].result.status = "failed"
              /\ wk[t].result.error = frame[t].fields.error
    /\ JobReturned =>
          /\ Len(results) = Len(job.clips)
          /\ \A t \in Tasks :
                \E i \in 1 .. Len(results) :
                    /\ results[i] = wk[t].result
                    /\ results[i].clip = job.clips[t]
                    /\ results[i].status \in Statuses
                    /\ Failed(t) => results[i].status = "failed"

C8_Witness ==
    /\ JobReturned
    /\ \E i, j \in 1 .. Len(results) :
          /\ results[i].status = "failed"
          /\ results[j].status = "success"

\* ------------------------------------------------------------ C10

\* thread t makes a status call in this step
Polls(t) == pc[t] = "poll" /\ (pc'[t] # "poll" \/ wk'[t].polls = wk[t].polls + 1)

\* ... and the call returns a status
Answered(t) == Polls(t) /\ wk'[t].resp = "data"

HasUri(st) == "uri" \in DOMAIN st /\ st.uri # <<"">>

Failing(t, msg) ==
    /\ pc'[t] = "rec_lock"
    /\ phase'[t] = "failed"
    /\ frame'[t].status = "failed"
    /\ frame'[t].fields.error = msg

\* what a done or an error status leads to
TerminalStatus(t) ==
    LET st == wk'[t].last
    IN  /\ (st.status = "done" /\ HasUri(st)) => pc'[t] = "download"
        /\ (st.status = "done" /\ ~HasUri(st)) =>
              Failing(t, "Export completed but no URI returned")
        /\ st.status = "error" => Failing(t, Get(st, "error", "Unknown export error"))

\* the download leads to the success record or to a failure
AfterDownload(t) ==
    (pc[t] = "download" /\ pc'[t] # "download") =>
        \/ phase'[t] = "success" /\ frame'[t].status = "success" /\ pc'[t] = "rec_lock"
        \/ Failing(t, "download failed")

ResultsFollow ==
    \A t \in Threads :
        pc[t] = "done" =>
            /\ phase[t] = "success" => wk[t].result.status = "success"
            /\ phase[t] = "failed" =>
                  /\ wk[t].result.status = "failed"
                  /\ wk[t].result.error = frame[t].fields.error

C10_OriginalStep ==
    \A t \in Threads :
        /\ Answered(t) =>
              /\ TerminalStatus(t)
              /\ wk'[t].last.status \notin {"done", "error"} => pc'[t] = "poll"
        /\ (pc[t] = "poll" /\ pc'[t] # "poll") =>
              Answered(t) /\ wk'[t].last.status \in {"done", "error"}
        /\ AfterDownload(t)

\* C10 as claimed: in POLLING the status response decides: a done status with
\* a locator leads to the download, a done status without one and an error
\* status to a failed result, and any other status to another poll; nothing
\* else leaves POLLING.
C10_Original == []ResultsFollow /\ [][C10_OriginalStep]_vars

C10_AmendedStep ==
    \A t \in Threads :
        /\ Answered(t) =>
              /\ TerminalStatus(t)
              /\ wk'[t].last.status \notin {"done", "error"} =>
                    IF wk[t].polls + 1 < PollBound
                    THEN pc'[t] = "poll"
                    ELSE Failing(t, ExhaustedMsg(wk'[t].last))
        /\ (pc[t] = "poll" /\ pc'[t] # "poll") =>
              \/ Answered(t)
              \/ /\ wk'[t].resp = "raise"
                 /\ wk'[t].last = wk[t].last
                 /\ Failing(t, "export status failed")
        /\ AfterDownload(t)

\* C10, amended: in POLLING a done status with a locator leads to the download
\* and, if that succeeds, to a success result; a done status without a locator
\* leads to a failed result "Export completed but no URI returned"; an error
\* status to a failed result with the server's error text; any other status
\* to another poll, except on the last attempt of the budget, where it leads to
\* a failed result "did not reach done status"; a status call that raises
\* leads to a failed result with the raised error.  Nothing else leaves POLLING.
C10_PollOutcomes == []ResultsFollow /\ [][C10_AmendedStep]_vars

C10_Witness ==
    \E t \in Threads :
        /\ pc[t] = "done"
        /\ wk[t].last.status = "error"
        /\ wk[t].result.status = "failed"
        /\ wk[t].result.error = "disk full"

\* ------------------------------------------------------------ C6

Min(a, b) == IF a <= b THEN a ELSE b

\* C6: the event log never holds more than 300 entries; it is the last 300 (or
\* all, if fewer) of the events record() has applied, oldest first; and after k
\* completed calls it has min(k, 300) entries, those of the calls k-299 .. k
\* in call order.
C6_BoundedLog ==
    opc # "down" =>
        /\ Len(data.events) <= 300
        /\ data.events = LastN(hist.applied, 300)
        /\ \A i \in 1 .. Len(data.events) - 1 :
              data.events[i].ts_utc <= data.events[i + 1].ts_utc
        /\ pc[1] \in {"idle", "done"} =>
              /\ Len(data.events) = Min(hist.calls, 300)
              /\ \A i \in 1 .. Len(data.events) :
                    data.events[i].export_id = ToString(hist.calls - Len(data.events) + i)

C6_Witness ==
    /\ opc # "down"
    /\ pc[1] = "done"
    /\ hist.calls = 302
    /\ Len(data.events) = 300
    /\ data.events[1].export_id = "3"
    /\ data.events[300].export_id = "302"

\* ------------------------------------------------------------ C7

\* C7: constructing the tracker over an unparseable file gives an empty store,
\* and from then on the file's original bytes are kept, under the backup name
\* or where they were, whatever record() does afterwards.
C7_CorruptRecoverable ==
    /\ (runs > 0 /\ hist.applied = <<>>) => data = FreshStore(0)
    /\ runs > 0 => (bak = Corrupt \/ file = Corrupt)

\* ------------------------------------------------------------ C9

ExhaustedText == "Export did not reach done status (last={'status': 'processing'})"

Exhausted(t) == phase[t] = "failed" /\ frame[t].fields.error = ExhaustedText

OthersUntouched(t) ==
    \A u \in Threads \ {t} : pc'[u] = pc[u] /\ wk'[u] = wk[u] /\ frame'[u] = frame[u]

C9_Bounded ==
    \A t \in Threads :
        /\ wk[t].polls < 300
        /\ pc[t] # "raised"
        /\ pc[t] = "poll" => ENABLED Poll(t, PollAttempts)
        /\ (Exhausted(t) /\ pc[t] = "done") =>
              /\ wk[t].result.status = "failed"
              /\ wk[t].result.error = ExhaustedText
              /\ data.clips[Key(t)].status = "failed"
              /\ data.clips[Key(t)].error = ExhaustedText

C9_Step ==
    \A t \in Threads :
        /\ (pc[t] = "poll" /\ (pc'[t] # pc[t] \/ wk'[t] # wk[t])) => Polls(t)
        /\ (Polls(t) /\ wk[t].polls = 299 /\ wk'[t].resp = "data"
                /\ wk'[t].last.status \notin {"done", "error"}) =>
              Failing(t, ExhaustedText)
        /\ (pc[t] = "poll" /\ Failing(t, ExhaustedText)) =>
              /\ wk[t].polls = 299
              /\ data' = data
              /\ OthersUntouched(t)
        /\ (Exhausted(t) /\ pc[t] = "rec_lock" /\ pc'[t] # "rec_lock") =>
              /\ \A k \in DOMAIN data.clips \ {Key(t)} : data'.clips[k] = data.clips[k]
              /\ OthersUntouched(t)

\* C9: the poll loop of a worker makes progress at every step and issues at
\* most 300 status queries; when the 300th still reports neither done nor
\* error the worker fails with "did not reach done status", returns a failed
\* result and leaves a failed tracker record; and neither that step nor the
\* failed record changes another worker's state or another clip's record.
C9_PollBudget == []C9_Bounded /\ [][C9_Step]_vars

C9_Witness ==
    \E t, u \in Threads :
        /\ t # u
        /\ Exhausted(t) /\ pc[t] = "done"
        /\ wk[u].result.status = "success"

\* ------------------------------------------------------------ C11

DownloadFailed(t) == phase[t] = "failed" /\ frame[t].fields.error = "download failed"

\* C11: a worker whose download fails returns a failed result and leaves a
\* failed record, and every file under a final name target_dir/filename is a
\* completely received one.
C11_NoPartialFile ==
    /\ \A t \in Threads :
          (DownloadFailed(t) /\ pc[t] = "done") =>
              /\ wk[t].result.status = "failed"
              /\ data.clips[Key(t)].status = "failed"
    /\ \A f \in DOMAIN disk : disk[f] = "complete"

\* ------------------------------------------------------ C12, C13, C14

\* workers that have enqueued an export and not reached a terminal state
InFlight ==
    {t \in Threads : /\ pc[t] \notin {"idle", "queued", "done", "raised"}
                     /\ wk[t].nEnq > 0 /\ wk[t].export_id # ""}

C12_Bounded ==
    /\ Cardinality(Running) <= JobWorkers
    /\ Cardinality(InFlight) <= JobWorkers
    /\ opc # "pool" => Running = {}

C12_Step ==
    /\ (opc = "pool" /\ opc' # "pool") => \A t \in Tasks : pc[t] = "done"
    /\ job' # job => \A t \in Threads : pc[t] = "idle"
    /\ \A t \in Threads :
          (pc[t] = "queued" /\ pc'[t] # "queued") =>
              /\ opc = "pool"
              /\ wk'[t].clip = job.clips[t]

C13_Counts ==
    /\ opc = "jobs" => Len(all_results) = hist.listed
    /\ opc = "pool" => Len(all_results) + Len(job.clips) = hist.listed
    /\ (opc = "jobs" /\ job.clips = <<>>) => results = <<>>

C13_Step ==
    (opc = "pool" /\ opc' = "jobs") =>
        /\ \A t \in Tasks : pc[t] = "done"
        /\ Len(results) = Len(job.clips)
        /\ \A i \in Tasks :
              Cardinality({j \in 1 .. Len(results) : results[j].clip = job.clips[i]}) = 1
        /\ all_results' = all_results \o results

\* C13: export_clips_for_job returns only when every submitted worker is
\* terminal, with exactly one result per listed clip; the results of export_jobs
\* are the concatenation of the jobs' lists, as many as the clips listed in
\* the run.
C13_OneResultPerClip == []C13_Counts /\ [][C13_Step]_vars

C13_Witness ==
    /\ opc = "jobs"
    /\ jobsDone = 2
    /\ Len(all_results) = 4
    /\ \E i, j \in 1 .. 4 : all_results[i].status = "success" /\ all_results[j].status = "failed"

C14_Step ==
    (opc = "jobs" /\ opc' = "jobs" /\ jobsDone' = jobsDone + 1) =>
        /\ job'.clips = <<>>
        /\ results' = <<>>
        /\ all_results' = all_results
        /\ data' = data
        /\ file' = file /\ tmp' = tmp /\ bak' = bak
        /\ hist'.applied = hist.applied
        /\ pc' = pc /\ frame' = frame

\* C14: a job whose listing is empty returns an empty result list and leaves
\* the tracker's store, its file and its event history as they were.
C14_EmptyListing == [][C14_Step]_vars

C14_Witness ==
    /\ opc = "jobs"
    /\ jobsDone = 1
    /\ job.clips = <<>>
    /\ results = <<>>
    /\ runs > 1
    /\ DOMAIN data.clips # {}
    /\ file = Dumps(data)

\* ------------------------------------------------------------ C15

C15_Step ==
    \A t \in Threads :
        (pc[t] = "rec_lock" /\ pc'[t] = "save_open" /\ frame[t].status \notin Statuses) =>
            /\ data'.counters.failed = data.counters.failed + 1
            /\ data'.per_camera[frame[t].camera].failed
                  = Get(data.per_camera, frame[t].camera, ZeroCounters).failed + 1
            /\ data'.clips[clip_key(frame[t].camera, frame[t].clip)].status = "failed"

C15_Stored ==
    opc # "down" =>
        /\ \A k \in DOMAIN data.clips : data.clips[k].status \in Statuses
        /\ \A i \in 1 .. Len(data.events) : data.events[i].status \in Statuses

\* C15: whatever status record() is called with, every TrackerRecord and every
\* TrackerEvent has a status of success, failed or skipped, and a call with
\* another status counts as failed, globally and for its camera, and is stored as
\* failed.
C15_StatusCoerced == []C15_Stored /\ [][C15_Step]_vars

\* ------------------------------------------------------------ C16

\* C16: once saving the tracker has failed inside a worker's record() call the
\* failure is not swallowed: export_clips_for_job does not return normally
\* and the run does not go on; it ends with the error.
C16_FailLoud == hist.saveFails > 0 => ~(opc = "jobs" /\ jobsDone > 0)

\* ------------------------------------------------------------ C17

\* the day's position in the calendar from 2026-02-23, a Monday
DayNo(d) == IF d[2] = 2 THEN d[3] - 22 ELSE d[3] + 6

\* the Fridays, Saturdays and Sundays from 2026-02-23 to 2026-03-15
WeekendDays ==
    {<<2026, 2, 27>>, <<2026, 2, 28>>, <<2026, 3, 1>>,
     <<2026, 3, 6>>, <<2026, 3, 7>>, <<2026, 3, 8>>,
     <<2026, 3, 13>>, <<2026, 3, 14>>, <<2026, 3, 15>>}

WantedDays ==
    {d \in WeekendDays : DayNo(sched.start) <= DayNo(d) /\ DayNo(d) <= DayNo(sched.end)}

JobCameras == {sched.cameras[i] : i \in 1 .. Len(sched.cameras)}

\* C17: build_weekend_jobs returns one job for every Friday, Saturday and
\* Sunday from start to end and every camera of the list, exactly one per pair
\* and no other job; with start after end, or without cameras, it returns the
\* empty list.
C17_WeekendJobs ==
    sched.built =>
        /\ \A d \in WantedDays, c \in JobCameras :
              Cardinality({i \in 1 .. Len(sched.jobs) :
                              /\ sched.jobs[i].camera = c
                              /\ sched.jobs[i].date = strptime(d)}) = 1
        /\ Len(sched.jobs) = Cardinality(WantedDays) * Cardinality(JobCameras)
        /\ \A i \in 1 .. Len(sched.jobs) :
              /\ sched.jobs[i].camera \in JobCameras
              /\ \E d \in WantedDays : sched.jobs[i].date = strptime(d)
        /\ (DayNo(sched.start) > DayNo(sched.end) \/ sched.cameras = <<>>) => sched.jobs = <<>>

C17_Witness ==
    /\ sched.built
    /\ sched.start = <<2026, 2, 26>>
    /\ sched.end = <<2026, 3, 6>>
    /\ Len(sched.cameras) = 2
    /\ Len(sched.jobs) = 8

\* ------------------------------------------------------------ C18

C18_Step ==
    /\ \A t \in Threads :
          (phase[t] = "skip" /\ pc[t] = "rec_lock" /\ pc'[t] # "rec_lock"
              /\ has_success(data, wk[t].camera, wk[t].clip)) =>
                 has_success(data', wk[t].camera, wk[t].clip)
    /\ (opc # "down" /\ opc' # "down") =>
          \A k \in DOMAIN data.clips :
              data.clips[k].status = "success" => data'.clips[k].status = "success"

\* C18: the record() call of the skip path leaves has_success true for the
\* identity, and no step of a worker turns a success TrackerRecord into a
\* record with another status.
C18_SkipKeepsSuccess == [][C18_Step]_vars

\* ------------------------------------------------------------ C19

\* the store holds the interim marker of worker t
Marked(st, t) ==
    /\ Key(t) \in DOMAIN st.clips
    /\ st.clips[Key(t)].status = "skipped"
    /\ Get(st.clips[Key(t)], "reason", Null) = "queued"
    /\ Get(st.clips[Key(t)], "export_id", Null) = wk[t].export_id

Alone(t) == \A u \in Threads \ {t} : pc[u] \in {"idle", "queued"} \/ Key(u) # Key(t)

\* C19: while a worker is polling or downloading, and no other worker works on
\* its identity, the identity's TrackerRecord is the marker (skipped, reason
\* queued, the export's identifier), in memory and in the tracker file, which
\* is what a crash in that window leaves behind.
C19_MarkerPersisted ==
    \A t \in Threads :
        (pc[t] \in {"poll", "download"} /\ Alone(t)) =>
            /\ wk[t].export_id # ""
            /\ Marked(data, t)
            /\ Parses(file)
            /\ Marked(Loads(file), t)

C19_Witness ==
    \E t, u \in Threads :
        /\ t # u
        /\ pc[t] = "download" /\ Marked(Loads(file), t)
        /\ pc[u] = "done" /\ wk[u].result.status = "success"

\* ------------------------------------------------------------ C20

Terminal == {"skip", "success", "failed"}

Invoked(t) == pc[t] \notin {"idle", "queued"}

C20_Order ==
    \A t \in Threads :
        Invoked(t) =>
            /\ wk[t].nEnq <= 1 /\ wk[t].nDl <= 1
            /\ pc[t] = "check" => (wk[t].nEnq = 0 /\ ~wk[t].polled /\ wk[t].nDl = 0)
            /\ pc[t] = "enqueue" => (wk[t].nEnq = 0 /\ ~wk[t].polled /\ wk[t].nDl = 0)
            /\ pc[t] = "poll" => (wk[t].nEnq = 1 /\ wk[t].nDl = 0)
            /\ pc[t] = "download" => (wk[t].polled /\ wk[t].nDl = 0)
            /\ wk[t].polled => (wk[t].nEnq = 1 /\ wk[t].export_id # "")
            /\ wk[t].nDl = 1 => (wk[t].polled /\ wk[t].last.status = "done")
            /\ (wk[t].nEnq = 1 /\ wk[t].export_id = "") =>
                  (~wk[t].polled /\ wk[t].nDl = 0 /\ phase[t] = "failed")
            /\ phase[t] = "skip" => (wk[t].nEnq = 0 /\ ~wk[t].polled /\ wk[t].nDl = 0)
            /\ phase[t] = "success" => (wk[t].polled /\ wk[t].nDl = 1)
            /\ pc[t] = "done" => phase[t] \in Terminal

\* once the terminal record() call is made, nothing but its completion follows
Settled(t) ==
    /\ phase'[t] = phase[t]
    /\ frame'[t].status = frame[t].status
    /\ wk'[t].nEnq = wk[t].nEnq
    /\ wk'[t].nDl = wk[t].nDl
    /\ wk'[t].polled = wk[t].polled

AfterReturn(t) ==
    /\ (pc[t] = "done" /\ pc'[t] = "done") => (wk'[t] = wk[t] /\ frame'[t] = frame[t])
    /\ (pc[t] = "raised" /\ pc'[t] = "raised") => (wk'[t] = wk[t] /\ frame'[t] = frame[t])
    /\ (pc[t] = "rec_ret" /\ phase[t] \in Terminal) => pc'[t] \in {"rec_ret", "done"}

C20_Step ==
    \A t \in Threads :
        /\ (Invoked(t) /\ phase[t] \in Terminal) => Settled(t)
        /\ AfterReturn(t)

\* C20: a worker checks for a duplicate, then calls enqueue at most once, then
\* polls, then calls download at most once, then makes exactly one terminal
\* record() call, and after it calls neither the client nor the tracker; after
\* an enqueue that failed it neither polls, nor downloads, nor enqueues again.
C20_StrictOrder == []C20_Order /\ [][C20_Step]_vars

\* ------------------------------------------------------------ C21

\* record() calls of the running process that have saved and returned
Completed == hist.saved

Saving(t) == pc[t] \in {"save_open", "save_write", "save_replace"}

\* the lock is held from the mutation to the replace, by the one thread that
\* is inside record()
C21_Locked ==
    \A t \in Threads : Saving(t) => (lock = t /\ \A u \in Threads \ {t} : ~Saving(u))

\* within one process the store is mutated only by a step that takes the free
\* lock, the file is written only by the lock's holder, with the store as it
\* is in memory, and a dedup check reads the store only while the lock is free
C21_Step ==
    (opc' = opc) =>
        /\ (data' # data) => (lock = 0 /\ lock' # 0)
        /\ (file' # file) => (lock # 0 /\ Saving(lock) /\ file' = Dumps(data))
        /\ \A t \in Threads : (pc[t] = "check" /\ pc'[t] # "check") => lock = 0

C21_OriginalState ==
    (opc # "down" /\ lock = 0 /\ Completed > 0) => file = Dumps(data)

C21_QuietState ==
    (opc # "down" /\ lock = 0 /\ Completed > 0 /\ ~hist.unsaved) => file = Dumps(data)

Cameras == {"front", "back"}

\* a camera's counters, all zero for a camera the store has not seen
CameraCounters(d, camera) == Get(d.per_camera, camera, ZeroCounters)

\* counters c2 are counters c1 with the counter named k one higher
Bumped(c1, c2, k) ==
    /\ DOMAIN c2 = DOMAIN c1
    /\ \A n \in DOMAIN c1 : c2[n] = IF n = k THEN c1[n] + 1 ELSE c1[n]

NonDecreasing(c1, c2) ==
    /\ DOMAIN c1 \subseteq DOMAIN c2
    /\ \A n \in DOMAIN c1 : c2[n] >= c1[n]

\* the mutation of one record() call
Records(t) == pc[t] = "rec_lock" /\ pc'[t] = "save_open"

C22_Step ==
    (opc' = opc) =>
        /\ NonDecreasing(data.counters, data'.counters)
        /\ DOMAIN data.per_camera \subseteq DOMAIN data'.per_camera
        /\ \A c \in Cameras :
              NonDecreasing(CameraCounters(data, c), CameraCounters(data', c))
        /\ \A t \in Threads :
              Records(t) =>
                  \E k \in Statuses :
                      /\ Bumped(data.counters, data'.counters, k)
                      /\ Bumped(CameraCounters(data, frame[t].camera),
                                CameraCounters(data', frame[t].camera), k)
                      /\ frame[t].status \in Statuses => k = frame[t].status
                      /\ \A c \in Cameras \ {frame[t].camera} :
                            CameraCounters(data', c) = CameraCounters(data, c)
        /\ (\A t \in Threads : ~Records(t)) =>
              /\ data'.counters = data.counters
              /\ data'.per_camera = data.per_camera

C22_Names ==
    opc # "down" =>
        /\ DOMAIN data.counters = Statuses
        /\ DOMAIN data.per_camera \subseteq Cameras
        /\ \A c \in DOMAIN data.per_camera : DOMAIN data.per_camera[c] = Statuses

\* C22: within one process every global counter and every camera's counter is
\* non-decreasing; each record() call raises exactly one of the three global
\* counters (the one of its status, failed for a status outside the three)
\* and the same-named counter of the call's camera by exactly 1 and leaves
\* every other counter as it was; nothing else changes a counter.
C22_CountersMonotone == []C22_Names /\ [][C22_Step]_vars

\* three calls have been counted: two for one camera, one for the other
C22_Witness ==
    /\ \A t \in Threads : pc[t] = "done"
    /\ CounterSum(data.counters) = NThreads
    /\ CounterSum(CameraCounters(data, "front")) = NThreads - 1
    /\ CounterSum(CameraCounters(data, "back")) = 1
    /\ data.counters.failed >= 2

\* ------------------------------------------------------------ C23, C24

RECURSIVE RefreshesUpTo(_)
RefreshesUpTo(n) == IF n = 0 THEN 0 ELSE bi.th[n].refreshes + RefreshesUpTo(n - 1)

\* login() calls made from line 100, over all threads
Refreshes == RefreshesUpTo(ClientThreads)

Refreshing(t) == bi.th[t].pc \in {"login1", "login2"} /\ bi.th[t].from = "refresh"

\* C23: the threads that share the client refresh the session one at a time,
\* and the logins made on invalid-session responses are at most as many as
\* the times the server has dropped its sessions: one re-authentication per
\* expiry, not one per thread.
C23_OneLoginPerExpiry ==
    bi.made =>
        /\ \A t, u \in PostThreads : (Refreshing(t) /\ Refreshing(u)) => t = u
        /\ Refreshes <= bi.expiries

\* C24: one _post call sends the request at most twice and calls login() at
\* most once after an invalid-session response; a call whose second response
\* was again an invalid-session failure, or whose refresh login failed, has
\* raised and not returned.
C24_PostBudget ==
    bi.made =>
        \A t \in PostThreads :
            /\ bi.th[t].sent <= 2
            /\ bi.th[t].refreshes <= 1
            /\ bi.th[t].invalid = 2 => bi.th[t].pc # "returned"
            /\ (bi.th[t].pc = "raised" /\ bi.th[t].from = "refresh") => bi.th[t].err # ""

\* ------------------------------------------------------------ C25

\* C25: the result a worker returns for a dedup skip carries the reason
\* dedupe_success, the reason its record() call for the skip wrote to the
\* tracker.
C25_SkipReason ==
    \A t \in Threads :
        (pc[t] = "done" /\ phase[t] = "skip") =>
            /\ wk[t].result.status = "skipped"
            /\ wk[t].result.reason = "dedupe_success"
            /\ wk[t].result.reason = frame[t].fields.reason

\* ------------------------------------------------------------ C26

Started(t) == pc[t] \notin {"idle", "queued"}

\* two started workers on the same clip identity
Twins(t, u) == t # u /\ Started(t) /\ Started(u) /\ Key(t) = Key(u)

RecordedSuccess(t) ==
    phase[t] = "success" /\ pc[t] \in {"save_open", "save_write", "save_replace", "rec_ret", "done"}

\* C26: of two workers that run concurrently on the same clip identity at
\* most one calls enqueue and at most one records success, and once both have
\* returned one of them has returned skipped.
C26_OneExportPerIdentity ==
    \A t, u \in Threads :
        Twins(t, u) =>
            /\ ~(wk[t].nEnq > 0 /\ wk[u].nEnq > 0)
            /\ ~(RecordedSuccess(t) /\ RecordedSuccess(u))
            /\ (pc[t] = "done" /\ pc[u] = "done") =>
                  (wk[t].result.status = "skipped" \/ wk[u].result.status = "skipped")

====
